---- MODULE Spec2Model ----
(***************************************************************************)
(* A model of scripts/purge-tables.py: the purge orchestration loop of     *)
(* main(), the four command runners and get_tables_from_query().           *)
(*                                                                         *)
(* Python values are tagged tuples: None is <<"n">>, the string s is       *)
(* <<"s", s>> and the integer i is <<"i", i>>.  A dict is a function whose *)
(* DOMAIN is its set of keys.  An external command is its argv, a sequence *)
(* of Python values; a process is a record naming the command it runs.     *)
(***************************************************************************)
EXTENDS Integers, Sequences, FiniteSets, TLC

(* ------------------------------------------------------------------ *)
(* Bounds of the model                                                 *)
(* ------------------------------------------------------------------ *)
\* the longest PURGE_LIST drawn
MaxJobs == 2
\* the most rows a lookup query returns
MaxRows == 2
\* the exit statuses of an external command are 0..MaxRet
MaxRet == 1

(* ------------------------------------------------------------------ *)
(* Python values                                                       *)
(* ------------------------------------------------------------------ *)
None == <<"n">>
S(x) == <<"s", x>>
I(x) == <<"i", x>>

IsNone(v) == v[1] = "n"
IsStr(v)  == v[1] = "s"
IsInt(v)  == v[1] = "i"

\* bool(v): None, '' and 0 are falsy
Truthy(v) == CASE IsNone(v) -> FALSE
               [] IsStr(v)  -> v[2] # ""
               [] IsInt(v)  -> v[2] # 0

\* '%s' % v and '{}'.format(v)
Str(v) == CASE IsNone(v) -> "None"
            [] IsStr(v)  -> v[2]
            [] IsInt(v)  -> ToString(v[2])

\* dict.get(key, default)
Get(d, k, default) == IF k \in DOMAIN d THEN d[k] ELSE default

\* the dict a.copy() after .update(b): b's keys win
Update(a, b) == [k \in (DOMAIN a) \cup (DOMAIN b) |-> IF k \in DOMAIN b THEN b[k] ELSE a[k]]

EmptyDict == [k \in {} |-> None]

(* ------------------------------------------------------------------ *)
(* Program constants and the environment                               *)
(* ------------------------------------------------------------------ *)
PT_ARCHIVER_BIN == "/usr/bin/pt-archiver"
Today == "20240101"                   \* time.strftime('%Y%m%d')

(* ------------------------------------------------------------------ *)
(* Resolution of the job list (main, lines 85-97)                      *)
(* ------------------------------------------------------------------ *)
\* lines 86-93: every job is a copy of the template updated by its override
PurgeData(all, purge) == Update(Update(EmptyDict, all), purge)

\* a variant of line 91 without the copy: purge_data is default_purge
\* itself, which line 92 then updates
DefaultPurgeShared(default_purge, purge_data) == purge_data

\* line 91: purge_data is a copy, line 92 leaves default_purge as it was
DefaultPurgeAfter(default_purge, purge_data) == default_purge

\* lines 90-93: the loop over PURGE_LIST, default_purge carried along
RECURSIVE ResolveLoop(_, _)
ResolveLoop(default_purge, purge_list) ==
    IF purge_list = <<>> THEN <<>>
    ELSE LET purge_data == Update(default_purge, Head(purge_list))
         IN  <<purge_data>>
             \o ResolveLoop(DefaultPurgeAfter(default_purge, purge_data), Tail(purge_list))

\* lines 85-93
PurgeDataList(all, purge_list) == ResolveLoop(Update(EmptyDict, all), purge_list)

RECURSIVE FilterAlias(_, _)
FilterAlias(list, alias) ==
    IF list = <<>> THEN <<>>
    ELSE IF alias = Head(list)["ALIAS"]
         THEN <<Head(list)>> \o FilterAlias(Tail(list), alias)
         ELSE FilterAlias(Tail(list), alias)

\* a variant of lines 95-97 without the filter
PurgesUnfiltered(all, purge_list, alias) == PurgeDataList(all, purge_list)

\* lines 95-97
Purges(all, purge_list, alias) ==
    IF IsNone(alias) THEN PurgeDataList(all, purge_list)
    ELSE FilterAlias(PurgeDataList(all, purge_list), alias)

\* line 97 raises KeyError when a filtered job has no ALIAS
AliasKeyError(all, purge_list, alias) ==
    /\ ~IsNone(alias)
    /\ \E n \in 1..Len(purge_list) : "ALIAS" \notin DOMAIN PurgeData(all, purge_list[n])

(* ------------------------------------------------------------------ *)
(* The job config (main, lines 101-126)                                *)
(* ------------------------------------------------------------------ *)
\* lines 101-122
RawConf(purge) ==
    [ prg_alias          |-> Get(purge, "ALIAS", None),
      src_host           |-> Get(purge, "SOURCE_HOST", S("localhost")),
      src_port           |-> Get(purge, "SOURCE_PORT", I(3306)),
      src_db             |-> Get(purge, "SOURCE_DB", None),
      src_tbl            |-> Get(purge, "SOURCE_TABLE", None),
      src_query          |-> Get(purge, "SOURCE_QUERY", None),
      dst_host           |-> Get(purge, "DEST_HOST", None),
      dst_port           |-> Get(purge, "DEST_PORT", None),
      dst_db             |-> Get(purge, "DEST_DB", None),
      dst_tbl            |-> Get(purge, "DEST_TABLE", None),
      dst_file           |-> Get(purge, "DEST_FILE", None),
      prg_where          |-> Get(purge, "WHERE", None),
      prg_limit          |-> Get(purge, "LIMIT", I(1000)),
      prg_sleep          |-> Get(purge, "SLEEP", I(1)),
      prg_purge          |-> Get(purge, "DELETE_DATA", I(0)),
      prg_extra_args     |-> Get(purge, "EXTRA_ARGS", None),
      prg_disable_binlog |-> Get(purge, "DISABLE_BINLOG", I(0)),
      prg_use_index      |-> Get(purge, "USE_INDEX", None),
      swp_drp            |-> Get(purge, "SWAP_DROP", I(0)),
      swp_table_suffix   |-> Get(purge, "SWP_TABLE_SUFFIX", S(Today)) ]

\* a variant of lines 125-126 that leaves the destination as given
DefaultDstNever(dst, src) == dst

\* lines 125-126, for one key
DefaultDst(dst, src) == IF ~Truthy(dst) THEN src ELSE dst

\* lines 124-126
ApplyDstDefaults(c) ==
    [c EXCEPT !.dst_host = DefaultDst(c.dst_host, c.src_host),
              !.dst_port = DefaultDst(c.dst_port, c.src_port),
              !.dst_db   = DefaultDst(c.dst_db, c.src_db),
              !.dst_tbl  = DefaultDst(c.dst_tbl, c.src_tbl)]

MakeConf(purge) == ApplyDstDefaults(RawConf(purge))

(* ------------------------------------------------------------------ *)
(* Validation (main, lines 131-137)                                    *)
(* ------------------------------------------------------------------ *)
\* a variant of line 131 that accepts any SWAP_DROP
StrategyInRangeAny(c) == TRUE

\* line 131: conf['swp_drp'] in (0, 1, 2)
StrategyInRange(c) == IsInt(c.swp_drp) /\ c.swp_drp[2] \in {0, 1, 2}

\* conf['swp_drp'] == n
StrategyIs(c, n) == IsInt(c.swp_drp) /\ c.swp_drp[2] = n

\* a variant of line 135 that never asks for a WHERE clause
WhereMissingNever(c) == FALSE

\* line 135
WhereMissing(c) == ~Truthy(c.prg_where) /\ StrategyIs(c, 0)

(* ------------------------------------------------------------------ *)
(* Target enumeration (get_tables_from_query, lines 340-361)           *)
(* ------------------------------------------------------------------ *)
MkTable(db, tbl) == [database |-> db, table |-> tbl]

\* the rows a lookup query may return: row k names table t<k>; a malformed
\* row has one column only.  The loop of lines 356-357 ends at the first
\* malformed row, so the results drawn hold one such row at most, at any
\* place.
GoodRow(k) == <<S("db1"), S("t" \o ToString(k))>>
BadRow == <<S("db1")>>
QueryResults ==
    UNION { { [k \in 1..n |-> IF k = bad THEN BadRow ELSE GoodRow(k)] :
                bad \in 0..n } : n \in 0..MaxRows }

\* lines 355-359: row[1] of a one-column row raises IndexError, which ends
\* the loop and keeps the tables appended so far
RECURSIVE TablesFromRows(_)
\* a variant of lines 355-359 that skips a malformed row and goes on
TablesFromRowsSkipping(res) ==
    LET good == SelectSeq(res, LAMBDA row : Len(row) >= 2)
    IN  [k \in 1..Len(good) |-> MkTable(good[k][1], good[k][2])]

TablesFromRows(res) ==
    IF res = <<>> THEN <<>>
    ELSE IF Len(Head(res)) < 2 THEN <<>>
    ELSE <<MkTable(Head(res)[1], Head(res)[2])>> \o TablesFromRows(Tail(res))

\* the outcome of connect/execute/fetchall (lines 346-353)
QueryFailed == [failed |-> TRUE, res |-> <<>>]
QueryOutcomes == {QueryFailed} \cup { [failed |-> FALSE, res |-> r] : r \in QueryResults }

GetTablesFromQuery(q) == IF q.failed THEN <<>> ELSE TablesFromRows(q.res)

(* ------------------------------------------------------------------ *)
(* Command construction                                                *)
(* ------------------------------------------------------------------ *)
\* subprocess.Popen and ' '.join raise TypeError on an item that is no str
AllStr(argv) == \A k \in 1..Len(argv) : IsStr(argv[k])

HostArg(c) == S("-h" \o Str(c.src_host))
PortArg(c) == S("-P" \o Str(c.src_port))

\* drop_table, lines 195-196
DropCmd(db, tbl, c) ==
    <<S("mysql"), db, HostArg(c), PortArg(c),
      S("-e" \o "DROP TABLE " \o Str(db) \o "." \o Str(tbl) \o ";")>>

\* swap_create_table, lines 212-215
SwapSql(db, tbl, swapped) ==
    "CREATE TABLE " \o Str(db) \o "." \o Str(tbl) \o "_tmp LIKE " \o Str(db) \o "." \o Str(tbl) \o ";"
    \o "RENAME TABLE " \o Str(db) \o "." \o Str(tbl) \o " TO " \o Str(db) \o "." \o Str(swapped)
    \o ", " \o Str(db) \o "." \o Str(tbl) \o "_tmp TO " \o Str(db) \o "." \o Str(tbl) \o ";"

SwapCmd(db, tbl, swapped, c) ==
    <<S("mysql"), db, HostArg(c), PortArg(c), S("-e" \o SwapSql(db, tbl, swapped))>>

\* swap_create_table, lines 228-235
DumpCmd(db, swapped, c) ==
    <<S("mysqldump"), HostArg(c), PortArg(c), S("--skip-opt"), S("--no-data"),
      S("--no-create-db"), db, swapped>>

\* swap_create_table, line 236
CreateCmd(c) ==
    <<S("mysql"), S("-h" \o Str(c.dst_host)), S("-P" \o Str(c.dst_port)), c.dst_db>>

\* swap_drop_runner, lines 253-258
SwapDropSql(tbl) ==
    "CREATE TABLE " \o Str(tbl) \o "_new like " \o Str(tbl) \o ";"
    \o " RENAME TABLE " \o Str(tbl) \o " TO " \o Str(tbl) \o "_old, "
    \o Str(tbl) \o "_new To " \o Str(tbl) \o ";"
    \o " DROP TABLE " \o Str(tbl) \o "_old"

SwapDropCmd(db, tbl, c) ==
    <<S("mysql"), db, HostArg(c), PortArg(c), S("-e" \o SwapDropSql(tbl))>>

\* pt_archive_runner, lines 274-284
SourceArgs(db, tbl, c) ==
    "--source=h=" \o Str(c.src_host) \o ",P=" \o Str(c.src_port) \o ",D=" \o Str(db)
    \o ",t=" \o Str(tbl) \o ",b=" \o Str(c.prg_disable_binlog)
    \o (IF Truthy(c.prg_use_index) THEN ",i=" \o Str(c.prg_use_index) ELSE "")

\* lines 286-297
ArchiverBase(db, tbl, c) ==
    <<S(PT_ARCHIVER_BIN), S(SourceArgs(db, tbl, c)),
      S("--where=" \o Str(c.prg_where)), S("--limit=" \o Str(c.prg_limit)),
      S("--progress=100000"), S("--why-quit"), S("--header"),
      S("--sleep=" \o Str(c.prg_sleep)), S("--statistics"),
      S("--skip-foreign-key-checks"), S("--commit-each"), S("--no-check-charset")>>

\* lines 307-313
DestArg(c) ==
    "--dest=h=" \o Str(c.dst_host) \o ",P=" \o Str(c.dst_port) \o ",D=" \o Str(c.dst_db)
    \o ",t=" \o Str(c.dst_tbl) \o ",b=" \o Str(c.prg_disable_binlog) \o ",L=yes"

\* a variant of lines 302-305 that looks at the destination file first
OutputModeFileFirst(c) ==
    IF Truthy(c.dst_file)
    THEN <<S("--buffer"), S("--bulk-delete"), S("--file=" \o Str(c.dst_file))>>
    ELSE IF Truthy(c.prg_purge) THEN <<S("--bulk-delete"), S("--purge")>>
         ELSE <<S("--bulk-insert"), S(DestArg(c))>>

\* lines 302-314
OutputMode(c) ==
    IF Truthy(c.prg_purge) THEN <<S("--bulk-delete"), S("--purge")>>
    ELSE IF Truthy(c.dst_file)
         THEN <<S("--buffer"), S("--bulk-delete"), S("--file=" \o Str(c.dst_file))>>
         ELSE <<S("--bulk-insert"), S(DestArg(c))>>

\* a variant of lines 316-317 that forgets the directive
DryRunArgNone(dry_run) == <<>>

\* lines 316-317
DryRunArg(dry_run) == IF dry_run THEN <<S("--dry-run")>> ELSE <<>>

\* lines 319-320; the extra arguments drawn hold no blank, so that
\* split(' ') yields the one word
ExtraArgs(c) == IF Truthy(c.prg_extra_args) THEN <<c.prg_extra_args>> ELSE <<>>

\* line 320 raises AttributeError when EXTRA_ARGS is a truthy non-string
ExtraArgsError(c) == Truthy(c.prg_extra_args) /\ ~IsStr(c.prg_extra_args)

\* pt_archive_runner, lines 274-320
PtArchiverCmd(db, tbl, c, dry_run) ==
    ArchiverBase(db, tbl, c) \o OutputMode(c) \o DryRunArg(dry_run) \o ExtraArgs(c)

\* main, line 163: str + str, anything else raises TypeError
CanConcat(tbl, c) == IsStr(tbl) /\ IsStr(c.swp_table_suffix)
SrcTblSwapped(tbl, c) == S(tbl[2] \o "_" \o c.swp_table_suffix[2])

(* ------------------------------------------------------------------ *)
(* The inputs drawn                                                    *)
(* ------------------------------------------------------------------ *)
\* the defaults section ALL
Templates ==
    { [LIMIT |-> I(500)] }

\* the entries of PURGE_LIST
JobChoices ==
    { \* ARCHIVE_ONLY, one static table, dumped to a file
      [ALIAS |-> S("a1"), SOURCE_DB |-> S("db1"), SOURCE_TABLE |-> S("t1"),
       WHERE |-> S("id<100"), DEST_FILE |-> S("/tmp/t1.txt")],
      \* SWAP_DROP over a lookup query, no static names
      [ALIAS |-> S("a2"), SOURCE_QUERY |-> S("SELECT 1"), SWAP_DROP |-> I(1)],
      \* SWAP_ARCHIVE_DROP over a lookup query, rows deleted
      [ALIAS |-> S("a1"), SOURCE_DB |-> S("db1"), SOURCE_QUERY |-> S("SELECT 2"),
       SWAP_DROP |-> I(2), DEST_HOST |-> S("dsthost"), DELETE_DATA |-> I(1),
       DEST_FILE |-> S("/tmp/t.txt"), LIMIT |-> I(100)],
      \* SWAP_ARCHIVE_DROP, one static table, copied to the destination
      [ALIAS |-> S("a2"), SOURCE_DB |-> S("db1"), SOURCE_TABLE |-> S("t1"),
       SWAP_DROP |-> I(2), SWP_TABLE_SUFFIX |-> S("old"), DEST_DB |-> S(""),
       DEST_TABLE |-> S("t1_arch"), EXTRA_ARGS |-> S("--quiet")],
      \* a strategy out of range
      [ALIAS |-> S("a3"), SOURCE_DB |-> S("db1"), SOURCE_TABLE |-> S("t1"),
       WHERE |-> S("1=1"), SWAP_DROP |-> I(3)],
      \* ARCHIVE_ONLY without WHERE
      [ALIAS |-> S("a3"), SOURCE_DB |-> S("db1"), SOURCE_TABLE |-> S("t1"),
       WHERE |-> S("")],
      \* SWAP_DROP, static, SOURCE_DB left out
      [ALIAS |-> S("a1"), SOURCE_TABLE |-> S("t1"), SWAP_DROP |-> I(1)] }

\* the job lists: up to MaxJobs entries, no entry twice
PurgeLists ==
    UNION { { l \in [1..n -> JobChoices] : \A a, b \in 1..n : a # b => l[a] # l[b] } :
               n \in 0..MaxJobs }

\* what yaml.safe_load returns: the well-formed documents and those
\* lacking a top-level section
Documents ==
    { [ALL |-> a, PURGE_LIST |-> l] : a \in Templates, l \in PurgeLists }
    \cup { [ALL |-> EmptyDict], [PURGE_LIST |-> <<>>] }

\* the command line (lines 60-68)
Options ==
    [alias : {None, S("a1")}, dry_run : BOOLEAN, stop_on_error : BOOLEAN]

(* ------------------------------------------------------------------ *)
(* State                                                               *)
(* ------------------------------------------------------------------ *)
VARIABLES
    options,          \* the parsed command line
    cfg_readable,     \* whether open/read/safe_load of the config succeed
    data,             \* the loaded document
    purges,           \* the resolved, alias-filtered job list
    pc,               \* main's position
    i,                \* index in purges of the job of the loop at line 99
    conf,             \* the job config
    tables_to_purge,  \* the job's targets
    t,                \* index in tables_to_purge of the loop at line 152
    ret,              \* main's and the runners' ret
    step,             \* the runner main is in
    waiting,          \* the process communicate() waits for
    running,          \* the child processes that have not exited
    cmdlog,           \* the commands built for the current target, in order
    steplog,          \* the runners returned for the current target, in order
    prg_log_stream,   \* the job whose log stream the name is bound to, 0: unbound
    open_streams,     \* the jobs whose log stream is open
    error_on_alias,   \* line 151
    query,            \* what the job's lookup query returned
    joblog,           \* the log lines of the current job
    finished,         \* how many jobs reached line 189
    outcome,          \* how the run ended
    exit_status,      \* the process's exit status, -1 while it runs
    exitlog,          \* the exit statuses communicate() met for the current target
    dump_returncode   \* the exit status of the schema dump, -1 until it exits

vars == <<options, cfg_readable, data, purges, pc, i, conf, tables_to_purge, t, ret,
          step, waiting, running, cmdlog, steplog, prg_log_stream,
          open_streams, error_on_alias, query, joblog, finished, outcome, exit_status,
          exitlog, dump_returncode>>

Unbound == <<"u">>               \* a local not assigned yet
NoProc == [step |-> "none", prog |-> "none"]
NoConf == RawConf(EmptyDict)
NoData == [unread |-> TRUE]
NoQuery == [failed |-> FALSE, res |-> <<>>]
PIPE == 0                        \* subprocess.PIPE in place of a log stream

Table == tables_to_purge[t]
src_db == Table.database
src_tbl == Table.table
\* line 163: assigned once per target, from values the target never changes
src_tbl_swapped == SrcTblSwapped(src_tbl, conf)

\* main's locals before line 72
Start ==
    /\ purges = <<>>
    /\ pc = "load"
    /\ i = 0
    /\ conf = NoConf
    /\ tables_to_purge = <<>>
    /\ t = 0
    /\ ret = Unbound
    /\ step = "none"
    /\ waiting = NoProc
    /\ running = {}
    /\ cmdlog = <<>>
    /\ steplog = <<>>
    /\ prg_log_stream = 0
    /\ open_streams = {}
    /\ error_on_alias = <<>>
    /\ query = NoQuery
    /\ joblog = <<>>
    /\ finished = 0
    /\ outcome = "running"
    /\ exit_status = -1
    /\ exitlog = <<>>
    /\ dump_returncode = -1

Init ==
    /\ options \in Options
    /\ \/ cfg_readable = TRUE /\ data \in Documents
       \/ cfg_readable = FALSE /\ data = NoData
    /\ Start

(* ------------------------------------------------------------------ *)
(* How main ends                                                       *)
(* ------------------------------------------------------------------ *)
\* the process ends: every stream it holds is closed with it
Finish(how, status) ==
    /\ pc' = "done"
    /\ outcome' = how
    /\ exit_status' = status
    /\ open_streams' = {}

\* an exception main does not catch before line 190: logged, main returns
Raise == Finish("unhandled", 0)

\* a return statement (lines 83, 133, 137) or the end of the loop
Return(how) == Finish(how, 0)

\* a variant of line 180 that exits with status 0
SysExitZero == Finish("stop_on_error", 0)

\* sys.exit(1), line 180: SystemExit is no Exception, line 190 lets it pass
SysExit == Finish("stop_on_error", 1)

(* ------------------------------------------------------------------ *)
(* main, lines 72-97                                                   *)
(* ------------------------------------------------------------------ *)
\* a variant of lines 77-83 that goes on when the file cannot be read
LoadConfigAnyway ==
    /\ pc = "load"
    /\ UNCHANGED <<exitlog, dump_returncode>>
    /\ pc' = "resolve"
    /\ UNCHANGED <<options, cfg_readable, data, purges, i, conf, tables_to_purge, t, ret,
                   step, waiting, running, cmdlog, steplog, prg_log_stream,
                   open_streams, error_on_alias, query, joblog, finished, outcome,
                   exit_status>>

LoadConfig ==
    /\ pc = "load"
    /\ UNCHANGED <<exitlog, dump_returncode>>
    /\ IF cfg_readable
       THEN /\ pc' = "resolve"
            /\ UNCHANGED <<outcome, exit_status, open_streams>>
       ELSE Return("config")
    /\ UNCHANGED <<options, cfg_readable, data, purges, i, conf, tables_to_purge, t, ret,
                   step, waiting, running, cmdlog, steplog,
                   prg_log_stream, error_on_alias, query, joblog, finished>>

\* data['ALL'], data['PURGE_LIST'] and b['ALIAS'] raise KeyError
ResolveRaises ==
    \/ "ALL" \notin DOMAIN data
    \/ "PURGE_LIST" \notin DOMAIN data
    \/ AliasKeyError(data.ALL, data.PURGE_LIST, options.alias)

Resolve ==
    /\ pc = "resolve"
    /\ UNCHANGED <<exitlog, dump_returncode>>
    /\ IF ResolveRaises
       THEN Raise /\ UNCHANGED purges
       ELSE /\ purges' = Purges(data.ALL, data.PURGE_LIST, options.alias)
            /\ pc' = "job"
            /\ UNCHANGED <<outcome, exit_status, open_streams>>
    /\ UNCHANGED <<options, cfg_readable, data, i, conf, tables_to_purge, t, ret,
                   step, waiting, running, cmdlog, steplog,
                   prg_log_stream, error_on_alias, query, joblog, finished>>

(* ------------------------------------------------------------------ *)
(* main, lines 99-151: the head of the job loop                        *)
(* ------------------------------------------------------------------ *)
\* lines 131-137: the job passes both checks
Validated(c) == StrategyInRange(c) /\ ~WhereMissing(c)

JobBegin ==
    /\ pc = "job"
    /\ UNCHANGED <<exitlog, dump_returncode>>
    /\ IF i = Len(purges)
       THEN Return("completed") /\ UNCHANGED <<i, conf, joblog>>
       ELSE /\ i' = i + 1
            /\ conf' = MakeConf(purges[i + 1])
            /\ joblog' = <<"started">>
            /\ IF Validated(conf')
               THEN /\ pc' = "open_log"
                    /\ UNCHANGED <<outcome, exit_status, open_streams>>
               ELSE Return("validation")
    /\ UNCHANGED <<options, cfg_readable, data, purges, tables_to_purge, t, ret,
                   step, waiting, running, cmdlog, steplog,
                   prg_log_stream, error_on_alias, query, finished>>

\* line 143 rebinds prg_log_stream: the stream of the job before loses its
\* only reference and is closed by its finaliser, at once under reference
\* counting, at some later collection otherwise
StreamsAfterOpen(old, new) ==
    { (open_streams \ {old}) \cup {new}, open_streams \cup {new} }

OpenLog ==
    /\ pc = "open_log"
    /\ UNCHANGED <<exitlog, dump_returncode>>
    /\ prg_log_stream' = i
    /\ open_streams' \in StreamsAfterOpen(prg_log_stream, i)
    /\ pc' = "enumerate"
    /\ UNCHANGED <<options, cfg_readable, data, purges, i, conf, tables_to_purge, t, ret,
                   step, waiting, running, cmdlog, steplog,
                   error_on_alias, query, joblog, finished, outcome, exit_status>>

\* lines 145-151
Enumerate ==
    /\ pc = "enumerate"
    /\ UNCHANGED <<exitlog, dump_returncode>>
    /\ IF Truthy(conf.src_query)
       THEN \E q \in QueryOutcomes :
               /\ query' = q
               /\ tables_to_purge' = GetTablesFromQuery(q)
       ELSE /\ query' = NoQuery
            /\ tables_to_purge' = <<MkTable(conf.src_db, conf.src_tbl)>>
    /\ error_on_alias' = <<>>
    /\ t' = 0
    /\ pc' = "target"
    /\ UNCHANGED <<options, cfg_readable, data, purges, i, conf, ret,
                   step, waiting, running, cmdlog, steplog,
                   prg_log_stream, open_streams, joblog, finished, outcome, exit_status>>

(* ------------------------------------------------------------------ *)
(* main, lines 152-172: the target loop and the strategy dispatch      *)
(* ------------------------------------------------------------------ *)
\* lines 156-163: the runner a target starts with; with no branch taken
\* control falls to line 174
FirstStep(c) ==
    IF StrategyIs(c, 0) THEN "archive"
    ELSE IF StrategyIs(c, 1) THEN "swap_drop"
    ELSE IF StrategyIs(c, 2) THEN "swap"
    ELSE "check"

NextTarget ==
    /\ pc = "target"
    /\ IF t = Len(tables_to_purge)
       THEN /\ pc' = "finish"
            /\ UNCHANGED <<t, cmdlog, steplog, exitlog, dump_returncode,
                           outcome, exit_status, open_streams>>
       ELSE /\ t' = t + 1
            /\ cmdlog' = <<>>
            /\ steplog' = <<>>
            /\ exitlog' = <<>>
            /\ dump_returncode' = -1
            /\ IF FirstStep(conf) = "swap" /\ ~CanConcat(tables_to_purge[t + 1].table, conf)
               THEN Raise
               ELSE /\ pc' = FirstStep(conf)
                    /\ UNCHANGED <<outcome, exit_status, open_streams>>
    /\ UNCHANGED <<options, cfg_readable, data, purges, i, conf, tables_to_purge, ret,
                   step, waiting, running, prg_log_stream, error_on_alias, query, joblog, finished>>

\* what the history keeps of a command
Cmd(s, argv, spawned, stream) ==
    [job |-> i, tgt |-> t, step |-> s, argv |-> argv, spawned |-> spawned, stream |-> stream]

\* a child process, named by the program it runs and the step that started it
Proc(s, prog) == [step |-> s, prog |-> prog]

\* A runner of one SQL-client command (drop_table, swap_drop_runner and the
\* first half of swap_create_table): under dry-run the command is printed
\* and ret = 0; otherwise Popen starts it and communicate() follows.
\* `joined` tells whether the dry-run branch prints ' '.join(cmd), which
\* needs every item to be a str as Popen does, or str(cmd), which does not.
RunSqlClient(s, argv, joined, after) ==
    /\ step' = s
    /\ IF options.dry_run
       THEN /\ cmdlog' = Append(cmdlog, Cmd(s, argv, FALSE, PIPE))
            /\ UNCHANGED <<waiting, running>>
            /\ IF joined /\ ~AllStr(argv)
               THEN Raise /\ UNCHANGED ret
               ELSE /\ ret' = I(0)
                    /\ pc' = after
                    /\ UNCHANGED <<outcome, exit_status, open_streams>>
       ELSE /\ UNCHANGED ret
            /\ IF AllStr(argv)
               THEN /\ cmdlog' = Append(cmdlog, Cmd(s, argv, TRUE, prg_log_stream))
                    /\ running' = running \cup {Proc(s, "mysql")}
                    /\ waiting' = Proc(s, "mysql")
                    /\ pc' = "wait"
                    /\ UNCHANGED <<outcome, exit_status, open_streams>>
               ELSE /\ cmdlog' = Append(cmdlog, Cmd(s, argv, FALSE, prg_log_stream))
                    /\ UNCHANGED <<waiting, running>>
                    /\ Raise

\* swap_drop_runner, lines 250-269
SwapDropRunner ==
    /\ pc = "swap_drop"
    /\ UNCHANGED <<exitlog, dump_returncode>>
    /\ RunSqlClient("swap_drop", SwapDropCmd(src_db, src_tbl, conf), FALSE, "ret")
    /\ UNCHANGED <<options, cfg_readable, data, purges, i, conf, tables_to_purge, t,
                   steplog, prg_log_stream, error_on_alias, query, joblog, finished>>

\* drop_table, lines 193-207
DropTable ==
    /\ pc = "drop"
    /\ UNCHANGED <<exitlog, dump_returncode>>
    /\ RunSqlClient("drop", DropCmd(src_db, src_tbl_swapped, conf), TRUE, "ret")
    /\ UNCHANGED <<options, cfg_readable, data, purges, i, conf, tables_to_purge, t,
                   steplog, prg_log_stream, error_on_alias, query, joblog, finished>>

\* swap_create_table, lines 209-225
SwapCreateTable ==
    /\ pc = "swap"
    /\ UNCHANGED <<exitlog, dump_returncode>>
    /\ RunSqlClient("swap", SwapCmd(src_db, src_tbl, src_tbl_swapped, conf), FALSE, "replicate")
    /\ UNCHANGED <<options, cfg_readable, data, purges, i, conf, tables_to_purge, t,
                   steplog, prg_log_stream, error_on_alias, query, joblog, finished>>

\* a variant of line 226 that replicates whatever the rename returned
SwapSucceededAlways(r) == TRUE

\* line 226
SwapSucceeded(r) == r = I(0)

\* swap_create_table, lines 226-248: the structure replication
Replicate ==
    /\ pc = "replicate"
    /\ LET dump_cmd == DumpCmd(src_db, src_tbl_swapped, conf)
           create_cmd == CreateCmd(conf)
           built == cmdlog \o << Cmd("dump", dump_cmd, FALSE, PIPE),
                                 Cmd("create", create_cmd, FALSE, PIPE) >>
       IN
       IF ~SwapSucceeded(ret)
       THEN /\ pc' = "ret"
            /\ UNCHANGED <<step, waiting, running, cmdlog, dump_returncode,
                           outcome, exit_status, open_streams>>
       ELSE IF options.dry_run
       THEN /\ cmdlog' = built
            /\ step' = "replicate"
            /\ UNCHANGED <<waiting, running, dump_returncode>>
            /\ IF AllStr(dump_cmd) /\ AllStr(create_cmd)
               THEN pc' = "ret" /\ UNCHANGED <<outcome, exit_status, open_streams>>
               ELSE Raise
       ELSE IF ~AllStr(dump_cmd)
       THEN /\ cmdlog' = built
            /\ step' = "replicate"
            /\ UNCHANGED <<waiting, running, dump_returncode>>
            /\ Raise
       ELSE IF ~AllStr(create_cmd)
       THEN /\ cmdlog' = cmdlog \o << Cmd("dump", dump_cmd, TRUE, PIPE),
                                      Cmd("create", create_cmd, FALSE, prg_log_stream) >>
            /\ step' = "replicate"
            /\ running' = running \cup {Proc("dump", "mysqldump")}
            /\ dump_returncode' = -1
            /\ UNCHANGED waiting
            /\ Raise
       ELSE /\ cmdlog' = cmdlog \o << Cmd("dump", dump_cmd, TRUE, PIPE),
                                      Cmd("create", create_cmd, TRUE, prg_log_stream) >>
            /\ step' = "replicate"
            /\ running' = running \cup {Proc("dump", "mysqldump"), Proc("create", "mysql")}
            /\ waiting' = Proc("create", "mysql")
            /\ dump_returncode' = -1
            /\ pc' = "wait"
            /\ UNCHANGED <<outcome, exit_status, open_streams>>
    /\ UNCHANGED <<options, cfg_readable, data, purges, i, conf, tables_to_purge, t, ret,
                   steplog, prg_log_stream, error_on_alias, query, joblog, finished,
                   exitlog>>

\* lines 157 and 169: the table the archiver reads
ArchiveTable == IF StrategyIs(conf, 2) THEN src_tbl_swapped ELSE src_tbl

\* lines 325-332: the archiver's stdout and stderr
ArchiverStream == IF options.dry_run THEN PIPE ELSE prg_log_stream

\* pt_archive_runner, lines 271-332
PtArchiveRunner ==
    /\ pc = "archive"
    /\ UNCHANGED <<exitlog, dump_returncode>>
    /\ step' = "archive"
    /\ IF ExtraArgsError(conf)
       THEN Raise /\ UNCHANGED <<cmdlog, waiting, running>>
       ELSE /\ cmdlog' = Append(cmdlog,
                  Cmd("archive", PtArchiverCmd(src_db, ArchiveTable, conf, options.dry_run),
                      TRUE, ArchiverStream))
            /\ running' = running \cup {Proc("archive", "pt-archiver")}
            /\ waiting' = Proc("archive", "pt-archiver")
            /\ pc' = "wait"
            /\ UNCHANGED <<outcome, exit_status, open_streams>>
    /\ UNCHANGED <<options, cfg_readable, data, purges, i, conf, tables_to_purge, t, ret,
                   steplog, prg_log_stream, error_on_alias, query, joblog, finished>>

\* the exit statuses of an external command
ExitCodes == 0..MaxRet

\* a variant of ret = purge_proc.returncode that reports success
ReturnCodeLost(r) == I(0)

\* ret = purge_proc.returncode (lines 206, 225, 247, 268, 337)
ReturnCode(r) == I(r)

\* communicate() and returncode: lines 205-206, 224-225, 246-247, 267-268, 333-337
Communicate ==
    /\ pc = "wait"
    /\ \E r \in ExitCodes :
          /\ exitlog' = Append(exitlog, [step |-> waiting.step, code |-> r])
          /\ ret' = ReturnCode(r)
    /\ UNCHANGED dump_returncode
    /\ running' = running \ {waiting}
    /\ waiting' = NoProc
    /\ pc' = IF step = "swap" THEN "replicate" ELSE "ret"
    /\ UNCHANGED <<options, cfg_readable, data, purges, i, conf, tables_to_purge, t,
                   step, cmdlog, steplog, prg_log_stream, open_streams,
                   error_on_alias, query, joblog, finished, outcome, exit_status>>

\* the current target has started a schema dump; the status of a dump left
\* over from a target before is of no target's history
DumpOfTarget ==
    \E k \in 1..Len(cmdlog) :
        /\ cmdlog[k].step = "dump" /\ cmdlog[k].spawned
        /\ cmdlog[k].job = i /\ cmdlog[k].tgt = t

\* the schema dump of line 241 is never waited for: it exits when it does
DumpExit ==
    /\ \E p \in running :
          /\ p.prog = "mysqldump"
          /\ running' = running \ {p}
    /\ \E r \in ExitCodes : dump_returncode' = IF DumpOfTarget THEN r ELSE -1
    /\ UNCHANGED exitlog
    /\ UNCHANGED <<options, cfg_readable, data, purges, pc, i, conf, tables_to_purge, t, ret,
                   step, waiting, cmdlog, steplog, prg_log_stream,
                   open_streams, error_on_alias, query, joblog, finished, outcome, exit_status>>

(* ------------------------------------------------------------------ *)
(* main, lines 157-189: a runner returns, the result is judged         *)
(* ------------------------------------------------------------------ *)
\* the runner whose return main receives
Runner == IF step \in {"swap", "replicate"} THEN "swap_create_table"
          ELSE IF step = "archive" THEN "pt_archive_runner"
          ELSE IF step = "drop" THEN "drop_table"
          ELSE "swap_drop_runner"

\* a variant of line 165 that archives whatever SWAP returned
ArchiveAfterSwapAlways(r) == TRUE

\* line 165: ARCHIVE follows SWAP
ArchiveAfterSwap(r) == r = I(0)

\* line 170: DROP follows ARCHIVE
DropAfterArchive(r) == r = I(0)

\* lines 157-172: where main goes when a runner has returned r
AfterRunner(runner, c, r) ==
    IF runner = "swap_create_table"
    THEN (IF ArchiveAfterSwap(r) THEN "archive" ELSE "check")
    ELSE IF runner = "pt_archive_runner" /\ StrategyIs(c, 2)
    THEN (IF DropAfterArchive(r) THEN "drop" ELSE "check")
    ELSE "check"

\* a variant of line 168 that leaves the destination table as resolved
RewriteDstTblNot(c, swapped) == c

\* line 168: the destination table the ARCHIVE step uses
RewriteDstTbl(c, swapped) == [c EXCEPT !.dst_tbl = swapped]

RunnerReturns ==
    /\ pc = "ret"
    /\ UNCHANGED <<exitlog, dump_returncode>>
    /\ steplog' = Append(steplog, [job |-> i, tgt |-> t, runner |-> Runner, ret |-> ret])
    /\ pc' = AfterRunner(Runner, conf, ret)
    /\ conf' = IF Runner = "swap_create_table" /\ ArchiveAfterSwap(ret)
               THEN RewriteDstTbl(conf, src_tbl_swapped)
               ELSE conf
    /\ UNCHANGED <<options, cfg_readable, data, purges, i, tables_to_purge, t, ret,
                   step, waiting, running, cmdlog, prg_log_stream,
                   open_streams, error_on_alias, query, joblog, finished, outcome, exit_status>>

\* line 174
TargetFailed(r) == r # I(0)

\* a variant of line 179 that ignores --stop-on-error
StopsOnErrorNever(o) == FALSE

\* a variant of line 179 that exits whether or not --stop-on-error is set
StopsOnErrorAlways(o) == TRUE

\* line 179
StopsOnError(o) == o.stop_on_error

\* lines 174-182
CheckResult ==
    /\ pc = "check"
    /\ UNCHANGED <<exitlog, dump_returncode>>
    /\ IF ret = Unbound
       THEN Raise /\ UNCHANGED <<error_on_alias, joblog>>
       ELSE IF TargetFailed(ret)
       THEN /\ error_on_alias' = Append(error_on_alias, conf.prg_alias)
            /\ joblog' = Append(joblog, "failed")
            /\ IF StopsOnError(options)
               THEN SysExit
               ELSE /\ pc' = "target"
                    /\ UNCHANGED <<outcome, exit_status, open_streams>>
       ELSE /\ pc' = "target"
            /\ UNCHANGED <<error_on_alias, joblog, outcome, exit_status, open_streams>>
    /\ UNCHANGED <<options, cfg_readable, data, purges, i, conf, tables_to_purge, t, ret,
                   step, waiting, running, cmdlog, steplog,
                   prg_log_stream, query, finished>>

\* a variant of line 185 that finds no alias in the list
InErrorsNever(alias, errors) == FALSE

\* line 185
InErrors(alias, errors) == \E k \in 1..Len(errors) : errors[k] = alias

\* lines 184-189
JobFinish ==
    /\ pc = "finish"
    /\ UNCHANGED <<exitlog, dump_returncode>>
    /\ joblog' = IF InErrors(conf.prg_alias, error_on_alias)
                 THEN Append(joblog, "finished")
                 ELSE joblog \o <<"complete", "finished">>
    /\ finished' = finished + 1
    /\ pc' = "job"
    /\ UNCHANGED <<options, cfg_readable, data, purges, i, conf, tables_to_purge, t, ret,
                   step, waiting, running, cmdlog, steplog,
                   prg_log_stream, open_streams, error_on_alias, query, outcome,
                   exit_status>>

(* ------------------------------------------------------------------ *)
(* The specification                                                   *)
(* ------------------------------------------------------------------ *)
Next ==
    \/ LoadConfig
    \/ Resolve
    \/ JobBegin
    \/ OpenLog
    \/ Enumerate
    \/ NextTarget
    \/ SwapDropRunner
    \/ SwapCreateTable
    \/ Replicate
    \/ PtArchiveRunner
    \/ DropTable
    \/ Communicate
    \/ DumpExit
    \/ RunnerReturns
    \/ CheckResult
    \/ JobFinish

Spec == Init /\ [][Next]_vars

(* ------------------------------------------------------------------ *)
(* Resolution alone: lines 72-137 over a wider choice of documents     *)
(* ------------------------------------------------------------------ *)
DstKeys == {"DEST_HOST", "DEST_PORT", "DEST_DB", "DEST_TABLE"}
SrcKeys == {"SOURCE_HOST", "SOURCE_PORT", "SOURCE_DB", "SOURCE_TABLE"}

\* the values the documents give a key: in the defaults section, in a job,
\* and the empty value a job may give it
TemplateValue(k) ==
    CASE k = "DEST_HOST" -> S("thost") [] k = "DEST_PORT" -> I(3400)
      [] k = "DEST_DB" -> S("tdb")     [] k = "DEST_TABLE" -> S("ttbl")
      [] k = "SOURCE_HOST" -> S("shost") [] k = "SOURCE_PORT" -> I(3307)
      [] k = "SOURCE_DB" -> S("sdb")   [] k = "SOURCE_TABLE" -> S("stbl")
JobValue(k) ==
    CASE k = "DEST_HOST" -> S("jhost") [] k = "DEST_PORT" -> I(3500)
      [] k = "DEST_DB" -> S("jdb")     [] k = "DEST_TABLE" -> S("jtbl")
      [] k = "SOURCE_HOST" -> S("jshost") [] k = "SOURCE_PORT" -> I(3308)
      [] k = "SOURCE_DB" -> S("db1")   [] k = "SOURCE_TABLE" -> S("t1")
EmptyValue(k) ==
    CASE k = "DEST_HOST" -> S("") [] k = "DEST_PORT" -> I(0)
      [] k = "DEST_DB" -> None    [] k = "DEST_TABLE" -> S("")

ResolveTemplates ==
    { [k \in ks |-> TemplateValue(k)] : ks \in SUBSET {"DEST_HOST", "DEST_DB", "SOURCE_DB"} }
    \cup { [DEST_DB |-> S(""), SOURCE_DB |-> S("sdb")] }

ResolveJobs ==
    { Update([ALIAS |-> S("a1"), SWAP_DROP |-> I(1)],
             Update([k \in src |-> JobValue(k)],
                    [k \in {d \in DstKeys : m[d] # "absent"} |->
                        IF m[k] = "empty" THEN EmptyValue(k) ELSE JobValue(k)])) :
        m \in [DstKeys -> {"absent", "empty", "given"}],
        src \in {{}, SrcKeys} }

ResolveDocuments ==
    { [ALL |-> a, PURGE_LIST |-> <<j>>] : a \in ResolveTemplates, j \in ResolveJobs }

InitResolve ==
    /\ options = [alias |-> None, dry_run |-> FALSE, stop_on_error |-> FALSE]
    /\ cfg_readable = TRUE
    /\ data \in ResolveDocuments
    /\ Start

NextResolve ==
    \/ LoadConfig
    \/ Resolve
    \/ JobBegin

SpecResolve == InitResolve /\ [][NextResolve]_vars

(* ------------------------------------------------------------------ *)
(* Properties                                                          *)
(* ------------------------------------------------------------------ *)
\* the retirement strategy the document gives job j
Strategy(j) == Get(purges[j], "SWAP_DROP", I(0))

\* a runner of the history's target returned r
Returned(e, runner, r) ==
    \E m \in 1..Len(steplog) :
        /\ steplog[m].job = e.job
        /\ steplog[m].tgt = e.tgt
        /\ steplog[m].runner = runner
        /\ steplog[m].ret = r

\* C1: in a SWAP_ARCHIVE_DROP job the ARCHIVE command of a target is built
\* only after its SWAP step returned 0, the DROP command only after its
\* ARCHIVE step returned 0, and the result judged at line 174 is that of the
\* last step run, every step before it having returned 0.
C1_StepsGated ==
    /\ \A k \in 1..Len(cmdlog) :
          Strategy(cmdlog[k].job) = I(2) =>
             /\ cmdlog[k].step = "archive" => Returned(cmdlog[k], "swap_create_table", I(0))
             /\ cmdlog[k].step = "drop" => Returned(cmdlog[k], "pt_archive_runner", I(0))
    /\ (pc = "check" /\ i >= 1 /\ Strategy(i) = I(2)) =>
          /\ steplog # <<>>
          /\ ret = steplog[Len(steplog)].ret
          /\ \A m \in 1..(Len(steplog) - 1) : steplog[m].ret = I(0)

\* C1 witness: the ARCHIVE step of an executed SWAP_ARCHIVE_DROP target
\* failed and the target is judged with no DROP built
C1_Witness ==
    /\ pc = "check" /\ i >= 1 /\ Strategy(i) = I(2)
    /\ ~options.dry_run
    /\ Len(steplog) = 2
    /\ steplog[2].runner = "pt_archive_runner"
    /\ steplog[2].ret # I(0)
    /\ \A k \in 1..Len(cmdlog) : cmdlog[k].step # "drop"

\* C2: with --stop-on-error, main's step from the judgement of a non-zero
\* result is the end of the run with a non-zero exit status (until then
\* only a child process may exit); whenever a failure is on record the
\* run is over, and once it is over no command is built, no process is
\* started and no target or job is entered.
C2_StopOnErrorEndsRun ==
    [][ /\ (pc = "check" /\ options.stop_on_error /\ ret # Unbound /\ ret # I(0)) =>
              /\ pc' \in {"check", "done"}
              /\ pc' = "done" => exit_status' > 0
              /\ cmdlog' = cmdlog /\ running' \subseteq running
              /\ i' = i /\ t' = t
        /\ (options.stop_on_error /\ error_on_alias' # <<>>) =>
              (pc' = "done" /\ exit_status' > 0)
        /\ pc = "done" =>
              /\ pc' = "done" /\ exit_status' = exit_status
              /\ cmdlog' = cmdlog /\ running' \subseteq running
              /\ i' = i /\ t' = t
      ]_vars

\* C2 witness: the run stopped on the first of two targets of the first of
\* two jobs
C2_Witness ==
    /\ pc = "done" /\ outcome = "stop_on_error" /\ exit_status = 1
    /\ options.stop_on_error
    /\ t = 1 /\ Len(tables_to_purge) = 2
    /\ i = 1 /\ Len(purges) = 2

\* C3: without --stop-on-error, main's step from the judgement of a
\* non-zero result is back to the head of the target loop; from there,
\* after a failure, the next target is entered or, after the last one, the
\* job is closed, and from the head of the job loop the next job is begun.
C3_ContinueOnError ==
    [][ ~options.stop_on_error =>
          /\ (pc = "check" /\ ret # Unbound /\ ret # I(0)) =>
                /\ pc' \in {"check", "target"}
                /\ outcome' = "running" /\ i' = i /\ t' = t
          /\ (pc = "target" /\ error_on_alias # <<>> /\ t < Len(tables_to_purge)) =>
                \/ pc' = "target" /\ t' = t
                \/ t' = t + 1 /\ pc' \in {"archive", "swap_drop", "swap"}
          /\ (pc = "target" /\ error_on_alias # <<>> /\ t = Len(tables_to_purge)) =>
                pc' \in {"target", "finish"}
          /\ (pc = "finish" /\ error_on_alias # <<>>) =>
                (pc' \in {"finish", "job"} /\ i' = i)
          /\ (pc = "job" /\ error_on_alias # <<>> /\ i < Len(purges)) =>
                \/ pc' = "job" /\ i' = i
                \/ /\ i' = i + 1
                   /\ pc' \in {"open_log", "done"}
                   /\ conf'.prg_alias = Get(purges[i + 1], "ALIAS", None)
      ]_vars

\* C3 witness: the second job has begun after a job whose two targets both
\* failed
C3_Witness ==
    /\ ~options.stop_on_error
    /\ pc = "open_log" /\ i = 2
    /\ t = 2 /\ Len(error_on_alias) = 2

\* the document's job j breaks a rule of lines 131-137: its strategy is
\* none of 0, 1, 2, or it is ARCHIVE_ONLY with no WHERE predicate
Invalid(j) ==
    \/ Strategy(j) \notin {I(0), I(1), I(2)}
    \/ Strategy(j) = I(0) /\ Get(purges[j], "WHERE", None) \in {None, S("")}

\* C4: an invalid job fails validation as soon as it is begun, and no
\* command built and no runner returned belongs to an invalid job.
C4_InvalidJobRunsNothing ==
    /\ \A k \in 1..Len(cmdlog) : ~Invalid(cmdlog[k].job)
    /\ \A m \in 1..Len(steplog) : ~Invalid(steplog[m].job)
    /\ (i >= 1 /\ Invalid(i)) => (pc = "done" /\ outcome = "validation")

\* C4 witness: the second job, of strategy 3, failed validation after the
\* first job ran a command
C4_Witness ==
    /\ pc = "done" /\ outcome = "validation"
    /\ i = 2 /\ Strategy(2) = I(3)
    /\ cmdlog # <<>> /\ cmdlog[1].job = 1

\* C5: the run never goes beyond the first invalid job of the list: when
\* that job is begun every job before it has been carried through and the
\* run is over for a validation failure.
C5_ValidationAbortsRun ==
    \A j \in 1..Len(purges) :
        (Invalid(j) /\ \A m \in 1..(j - 1) : ~Invalid(m)) =>
            /\ i <= j
            /\ i = j => (pc = "done" /\ outcome = "validation" /\ finished = j - 1)

\* C5 witness: the first job lacks its WHERE clause and the run is over
\* with a valid second job never begun
C5_Witness ==
    /\ pc = "done" /\ outcome = "validation"
    /\ Len(purges) = 2 /\ i = 1
    /\ Strategy(1) = I(0)
    /\ ~Invalid(2)

HasArg(argv, a) == \E k \in 1..Len(argv) : argv[k] = S(a)

\* C6: under --dry-run no SQL client and no schema dump is started, the
\* only processes are archivers and each carries --dry-run, and the SQL
\* runners return 0.
C6_DryRunSpawnsOnlyArchiver ==
    options.dry_run =>
        /\ \A k \in 1..Len(cmdlog) :
              /\ cmdlog[k].step \in {"swap_drop", "swap", "dump", "create", "drop"} =>
                    ~cmdlog[k].spawned
              /\ cmdlog[k].spawned =>
                    (cmdlog[k].step = "archive" /\ HasArg(cmdlog[k].argv, "--dry-run"))
        /\ \A p \in running : p.prog = "pt-archiver"
        /\ \A m \in 1..Len(steplog) :
              steplog[m].runner \in {"swap_drop_runner", "swap_create_table", "drop_table"} =>
                 steplog[m].ret = I(0)

\* C6 witness: a SWAP_ARCHIVE_DROP target went through its three steps
\* under --dry-run
C6_Witness ==
    /\ options.dry_run
    /\ pc = "check" /\ i >= 1 /\ Strategy(i) = I(2)
    /\ Len(steplog) = 3 /\ Len(cmdlog) = 5

\* the name line 163 gives the renamed table of the current target
SuffixedTable ==
    S(Table.table[2] \o "_" \o Get(purges[i], "SWP_TABLE_SUFFIX", S(Today))[2])

\* C7: a SWAP_ARCHIVE_DROP target whose result is 0 ran swap_create_table,
\* pt_archive_runner and drop_table in this order and nothing else, the
\* archiver reading and drop_table dropping <table>_<suffix>; when the
\* archiver command is built the destination table is <table>_<suffix>.
C7_ThreeStepsInOrder ==
    /\ (pc = "archive" /\ Strategy(i) = I(2)) => conf.dst_tbl = SuffixedTable
    /\ (pc = "check" /\ i >= 1 /\ Strategy(i) = I(2) /\ ret = I(0)) =>
          /\ [m \in 1..Len(steplog) |-> steplog[m].runner]
                = <<"swap_create_table", "pt_archive_runner", "drop_table">>
          /\ [k \in 1..Len(cmdlog) |-> cmdlog[k].step]
                = <<"swap", "dump", "create", "archive", "drop">>
          /\ \A k \in 1..Len(cmdlog) : cmdlog[k].job = i /\ cmdlog[k].tgt = t
          /\ cmdlog[4].argv[2] = S(SourceArgs(Table.database, SuffixedTable, conf))
          /\ cmdlog[5].argv = DropCmd(Table.database, SuffixedTable, conf)
          /\ conf.dst_tbl = SuffixedTable

\* C7 witness: the second row of a lookup query went through the three
\* steps, executed
C7_Witness ==
    /\ pc = "check" /\ i >= 1 /\ Strategy(i) = I(2) /\ ret = I(0)
    /\ ~options.dry_run
    /\ t = 2 /\ Len(steplog) = 3

\* the config field and the source key that go with a destination key
DstField(k) ==
    CASE k = "DEST_HOST" -> "dst_host" [] k = "DEST_PORT" -> "dst_port"
      [] k = "DEST_DB" -> "dst_db"     [] k = "DEST_TABLE" -> "dst_tbl"
SrcKey(k) ==
    CASE k = "DEST_HOST" -> "SOURCE_HOST" [] k = "DEST_PORT" -> "SOURCE_PORT"
      [] k = "DEST_DB" -> "SOURCE_DB"     [] k = "DEST_TABLE" -> "SOURCE_TABLE"
SrcDefault(k) ==
    CASE k = "DEST_HOST" -> S("localhost") [] k = "DEST_PORT" -> I(3306)
      [] k = "DEST_DB" -> None             [] k = "DEST_TABLE" -> None

\* the override of the job last begun (no alias filter: purges follows
\* PURGE_LIST) and the final value of the source field that goes with k
Override == data.PURGE_LIST[i]
SrcFinal(k) ==
    IF SrcKey(k) \in DOMAIN Override THEN Override[SrcKey(k)]
    ELSE IF SrcKey(k) \in DOMAIN data.ALL THEN data.ALL[SrcKey(k)]
    ELSE SrcDefault(k)

\* C8 as stated: a destination field absent in the job's override resolves
\* to the final value of the source field.
C8_AbsentInOverride ==
    i >= 1 =>
       \A k \in DstKeys :
          k \notin DOMAIN Override => conf[DstField(k)] = SrcFinal(k)

\* the value of key k once the override is merged over the defaults section
Merged(k) ==
    IF k \in DOMAIN Override THEN Override[k]
    ELSE IF k \in DOMAIN data.ALL THEN data.ALL[k]
    ELSE None

\* C8, amended: a destination field that is absent or empty once the
\* override is merged over the defaults section resolves to the final value
\* of the source field, whether the override or the defaults section gives
\* that one; any other destination field keeps its merged value.
C8_AbsentAfterMerge ==
    i >= 1 =>
       \A k \in DstKeys :
          IF Merged(k) \in {None, S(""), I(0)}
          THEN conf[DstField(k)] = SrcFinal(k)
          ELSE conf[DstField(k)] = Merged(k)

\* C8 witness: DEST_DB is given nowhere, SOURCE_DB by the defaults section
\* only, and the resolved destination database is the latter
C8_Witness ==
    /\ i = 1
    /\ "DEST_DB" \notin DOMAIN Override /\ "DEST_DB" \notin DOMAIN data.ALL
    /\ "SOURCE_DB" \notin DOMAIN Override /\ "SOURCE_DB" \in DOMAIN data.ALL
    /\ conf.dst_db = data.ALL["SOURCE_DB"]

\* C9 as stated: when a command of the current job has been built, the
\* database and table names of the job config are non-empty.
C9_NamesNonEmpty ==
    \A k \in 1..Len(cmdlog) :
        cmdlog[k].job = i =>
           \A f \in {"src_db", "src_tbl", "dst_db", "dst_tbl"} : conf[f] \notin {None, S("")}

\* C10 as stated: a process of job i writes to the stream of job i or to
\* a pipe, and when a job is begun, or the run is over, no stream of an
\* earlier job is open.
C10_LogStreamClosed ==
    /\ \A k \in 1..Len(cmdlog) :
          cmdlog[k].spawned => cmdlog[k].stream \in {cmdlog[k].job, PIPE}
    /\ pc = "open_log" => open_streams \cap 1..(i - 1) = {}
    /\ pc = "done" => open_streams = {}

\* C11: the exit status is set when the run ends and not before; a run
\* that ends at the end of the job loop exits with 0, also when a target of
\* its last job failed; the run ends on a stop-on-error abort exactly when
\* --stop-on-error is set and a failure is on record, and then the exit
\* status is not 0.
C11_ExitStatus ==
    /\ (pc = "done") = (exit_status # -1)
    /\ (pc = "done" /\ outcome = "completed") => exit_status = 0
    /\ (outcome = "stop_on_error") =
          (pc = "done" /\ options.stop_on_error /\ error_on_alias # <<>>)
    /\ outcome = "stop_on_error" => exit_status > 0
    /\ (pc = "done" /\ ~options.stop_on_error) => exit_status = 0

\* C11 witness: the run completed with both targets of its second job
\* failed, no --stop-on-error
C11_Witness ==
    /\ pc = "done" /\ outcome = "completed" /\ exit_status = 0
    /\ ~options.stop_on_error
    /\ i = 2 /\ Len(error_on_alias) = 2

\* the document could not be loaded, or lacks a top-level section
BadDocument ==
    \/ ~cfg_readable
    \/ "ALL" \notin DOMAIN data
    \/ "PURGE_LIST" \notin DOMAIN data

\* C12: with a document that cannot be read the run ends at line 83, with
\* one that lacks a section it ends in resolution; in both cases no job is
\* begun, no log opened, no target enumerated and no command built.
C12_NoJobOnBadDocument ==
    /\ ~cfg_readable => (pc \in {"load", "done"} /\ outcome \in {"running", "config"})
    /\ BadDocument =>
          /\ pc \in {"load", "resolve", "done"}
          /\ outcome \in {"running", "config", "unhandled"}
          /\ i = 0 /\ purges = <<>> /\ conf = NoConf
          /\ joblog = <<>> /\ finished = 0
          /\ prg_log_stream = 0 /\ open_streams = {}
          /\ query = NoQuery /\ tables_to_purge = <<>> /\ t = 0
          /\ cmdlog = <<>> /\ steplog = <<>> /\ running = {}

\* C12 witness: a document without PURGE_LIST ended the run in resolution
C12_Witness ==
    /\ pc = "done" /\ outcome = "unhandled"
    /\ cfg_readable
    /\ "ALL" \in DOMAIN data /\ "PURGE_LIST" \notin DOMAIN data

\* the number of rows of a result before its first row of fewer than two
\* columns
LeadingGood(res) ==
    CHOOSE n \in 0..Len(res) :
        /\ \A k \in 1..n : Len(res[k]) >= 2
        /\ n = Len(res) \/ Len(res[n + 1]) < 2

\* the targets a lookup collects: none when it failed, else one for each
\* row before the first malformed one
Collected(q) ==
    IF q.failed THEN <<>>
    ELSE [k \in 1..LeadingGood(q.res) |-> [database |-> q.res[k][1], table |-> q.res[k][2]]]

\* the lookup met a problem: it failed, or a row is malformed
QueryProblem(q) == q.failed \/ LeadingGood(q.res) < Len(q.res)

InTargetLoop ==
    pc \in {"target", "archive", "swap_drop", "swap", "replicate", "drop", "wait",
            "ret", "check", "finish"}

\* C13: the targets of a query-mode job are those collected before the
\* problem, if any; enumeration records no failure (a job with no target is
\* logged complete); and main steps from enumeration into the target loop,
\* after a problem through the targets collected, to the end of the job
\* and to the next job.
C13_EnumerationProblem ==
    /\ [](/\ (InTargetLoop /\ Truthy(conf.src_query)) =>
                tables_to_purge = Collected(query)
          /\ (pc = "target" /\ t = 0) => error_on_alias = <<>>
          /\ InTargetLoop => Len(error_on_alias) <= t
          /\ (pc = "job" /\ i >= 1 /\ tables_to_purge = <<>>) =>
                joblog = <<"started", "complete", "finished">>)
    /\ [][ /\ pc = "enumerate" =>
                \/ pc' = "enumerate"
                \/ pc' = "target" /\ t' = 0 /\ i' = i /\ outcome' = "running"
           /\ (pc = "target" /\ QueryProblem(query) /\ t < Len(tables_to_purge)) =>
                \/ pc' = "target" /\ t' = t
                \/ t' = t + 1 /\ pc' \in {"archive", "swap_drop", "swap"}
           /\ (pc = "target" /\ QueryProblem(query) /\ t = Len(tables_to_purge)) =>
                (pc' \in {"target", "finish"} /\ outcome' = "running")
           /\ (pc = "finish" /\ QueryProblem(query)) =>
                (pc' \in {"finish", "job"} /\ i' = i /\ outcome' = "running")
           /\ (pc = "job" /\ QueryProblem(query) /\ i < Len(purges)) =>
                \/ pc' = "job" /\ i' = i
                \/ i' = i + 1 /\ pc' \in {"open_log", "done"}
         ]_vars

\* C13 witness: the second job has begun after a job whose lookup returned
\* a good row and then a malformed one, the good row's table processed
\* without failure
C13_Witness ==
    /\ pc = "open_log" /\ i = 2
    /\ ~query.failed /\ Len(query.res) = 2
    /\ Len(tables_to_purge) = 1 /\ t = 1
    /\ tables_to_purge[1].table = query.res[1][2]
    /\ error_on_alias = <<>>

\* how often a line is in the job's log
Logged(line) == Cardinality({k \in 1..Len(joblog) : joblog[k] = line})

\* C14: when a job's target loop has run to its end, the log of the job
\* holds one failure line for each target judged failed, the success line
\* exactly when there is no such target, and the total-duration line once,
\* at its end.
C14_JobLines ==
    /\ InTargetLoop => (Logged("complete") = 0 /\ Logged("finished") = 0)
    /\ (pc = "job" /\ i >= 1) =>
          /\ Logged("failed") = Len(error_on_alias)
          /\ (Logged("complete") = 1) = (Logged("failed") = 0)
          /\ Logged("complete") <= 1
          /\ Logged("finished") = 1
          /\ joblog[Len(joblog)] = "finished"

\* C14 witness: a job of two targets, one failed and one not, is closed
\* without the success line
C14_Witness ==
    /\ pc = "job" /\ i >= 1
    /\ Len(tables_to_purge) = 2 /\ Len(error_on_alias) = 1
    /\ joblog = <<"started", "failed", "finished">>

\* the argument begins with the prefix
StartsWith(v, prefix) ==
    /\ IsStr(v)
    /\ Len(v[2]) >= Len(prefix)
    /\ SubSeq(v[2], 1, Len(prefix)) = prefix

\* the output modes an archiver command carries
IsDeleteMode(argv) == HasArg(argv, "--purge")
IsFileMode(argv) == \E k \in 1..Len(argv) : StartsWith(argv[k], "--file=")
IsInsertMode(argv) ==
    \/ HasArg(argv, "--bulk-insert")
    \/ \E k \in 1..Len(argv) : StartsWith(argv[k], "--dest=")

\* C15: an archiver command carries one output mode and no other: the
\* delete mode when the job's delete flag is set, whatever its destination
\* file; else the file mode, with the job's destination file; else the
\* insert mode, with the destination host, port, database and table of the
\* job config (while the job of the command is the current one).
C15_OneOutputMode ==
    \A k \in 1..Len(cmdlog) :
        cmdlog[k].step = "archive" =>
           LET argv == cmdlog[k].argv
               job  == purges[cmdlog[k].job]
               del  == Get(job, "DELETE_DATA", I(0)) \notin {None, S(""), I(0)}
               file == Get(job, "DEST_FILE", None)
               dump == file \notin {None, S("")}
           IN  /\ IsDeleteMode(argv) = del
               /\ IsFileMode(argv) = (~del /\ dump)
               /\ IsInsertMode(argv) = (~del /\ ~dump)
               /\ (~del /\ dump) => HasArg(argv, "--file=" \o Str(file))
               /\ (~del /\ ~dump /\ cmdlog[k].job = i) =>
                     HasArg(argv, "--dest=h=" \o Str(conf.dst_host)
                                  \o ",P=" \o Str(conf.dst_port)
                                  \o ",D=" \o Str(conf.dst_db)
                                  \o ",t=" \o Str(conf.dst_tbl)
                                  \o ",b=" \o Str(conf.prg_disable_binlog) \o ",L=yes")

\* C15 witness: an archiver command in delete mode for a job that sets
\* both the delete flag and a destination file
C15_Witness ==
    \E k \in 1..Len(cmdlog) :
        /\ cmdlog[k].step = "archive"
        /\ Get(purges[cmdlog[k].job], "DELETE_DATA", I(0)) = I(1)
        /\ "DEST_FILE" \in DOMAIN purges[cmdlog[k].job]
        /\ IsDeleteMode(cmdlog[k].argv)

\* what job n of the document resolves to: the keys of the defaults
\* section and its own, its own values first
Resolved(n) ==
    [k \in (DOMAIN data.ALL) \cup (DOMAIN data.PURGE_LIST[n]) |->
        IF k \in DOMAIN data.PURGE_LIST[n] THEN data.PURGE_LIST[n][k] ELSE data.ALL[k]]

\* C16: every resolved job holds the defaults section under the job's own
\* overrides and nothing of another job; without an alias filter the k-th
\* resolved job is that of the k-th entry, with one it is that of an entry
\* of the document; a key the job does not override has the value of the
\* defaults section in the job config.
C16_TemplateNotMutated ==
    (pc \notin {"load", "resolve"} /\ ~BadDocument) =>
       /\ \A j \in 1..Len(purges) :
             \E n \in 1..Len(data.PURGE_LIST) : purges[j] = Resolved(n)
       /\ IsNone(options.alias) =>
             /\ Len(purges) = Len(data.PURGE_LIST)
             /\ \A j \in 1..Len(purges) : purges[j] = Resolved(j)
             /\ (i >= 1 /\ "LIMIT" \notin DOMAIN data.PURGE_LIST[i]) =>
                   conf.prg_limit = Get(data.ALL, "LIMIT", I(1000))
             /\ (i >= 1 /\ "DEST_FILE" \notin DOMAIN data.PURGE_LIST[i]) =>
                   conf.dst_file = None

\* C16 witness: the second job is begun with the batch limit of the
\* defaults section after a first job that overrides it
C16_Witness ==
    /\ IsNone(options.alias)
    /\ pc = "open_log" /\ i = 2
    /\ "LIMIT" \in DOMAIN data.PURGE_LIST[1]
    /\ "LIMIT" \notin DOMAIN data.PURGE_LIST[2]
    /\ data.PURGE_LIST[1]["LIMIT"] # data.ALL["LIMIT"]
    /\ conf.prg_limit = data.ALL["LIMIT"]

\* the pair of the structure replication: mysqldump piped into mysql
ReplicationPair == {Proc("dump", "mysqldump"), Proc("create", "mysql")}

\* C17 as stated: at most one external command is executing, or the two
\* of the replication pipe; and where a step, a target or a job starts no
\* process started before is still executing.
C17_Sequential ==
    /\ Cardinality(running) <= 1 \/ running = ReplicationPair
    /\ pc \in {"job", "target", "archive", "swap_drop", "swap", "drop"} => running = {}

\* the entries of the document whose ALIAS is the filter
Matching == {n \in 1..Len(data.PURGE_LIST) : Get(data.PURGE_LIST[n], "ALIAS", None) = options.alias}

\* C18: with an alias filter, the jobs of the loop are the entries of the
\* document with that ALIAS, as many as there are; the job begun, its log
\* and every command built and runner returned are those of such a job.
C18_AliasFilter ==
    (~IsNone(options.alias) /\ ~BadDocument /\ pc \notin {"load", "resolve"}) =>
       /\ Len(purges) = Cardinality(Matching)
       /\ \A j \in 1..Len(purges) : purges[j]["ALIAS"] = options.alias
       /\ i >= 1 => conf.prg_alias = options.alias
       /\ finished <= Cardinality(Matching)
       /\ \A k \in 1..Len(cmdlog) : purges[cmdlog[k].job]["ALIAS"] = options.alias
       /\ \A m \in 1..Len(steplog) : purges[steplog[m].job]["ALIAS"] = options.alias

\* C18 witness: the run completed over the one matching job of a document
\* whose first entry has another alias, a command built for it
C18_Witness ==
    /\ options.alias = S("a1")
    /\ pc = "done" /\ outcome = "completed"
    /\ Len(data.PURGE_LIST) = 2 /\ Matching = {2}
    /\ finished = 1 /\ cmdlog # <<>>

\* the histories are those of the current target
CurrentTarget ==
    /\ InTargetLoop /\ t >= 1
    /\ \A k \in 1..Len(cmdlog) : cmdlog[k].job = i /\ cmdlog[k].tgt = t

\* the steps of the commands built for the target, in order
Steps == [k \in 1..Len(cmdlog) |-> cmdlog[k].step]

\* the job has no lookup query
StaticMode(j) == Get(purges[j], "SOURCE_QUERY", None) \in {None, S(""), I(0)}

\* C19 as stated: the one command of a target of an ARCHIVE_ONLY job is an
\* archiver, that of a target of a SWAP_DROP job an SQL client; the command
\* is invoked, and when the target is judged its exit status is the result;
\* a static-mode job has one target.
C19_SingleStepInvoked ==
    /\ (CurrentTarget /\ Strategy(i) \in {I(0), I(1)}) =>
          /\ Len(cmdlog) <= 1
          /\ \A k \in 1..Len(cmdlog) :
                /\ cmdlog[k].step = (IF Strategy(i) = I(0) THEN "archive" ELSE "swap_drop")
                /\ cmdlog[k].argv[1] =
                      (IF Strategy(i) = I(0) THEN S(PT_ARCHIVER_BIN) ELSE S("mysql"))
                /\ pc # "done" => cmdlog[k].spawned
          /\ pc \in {"check", "target", "finish"} =>
                /\ Len(cmdlog) = 1 /\ Len(exitlog) = 1
                /\ ret = I(exitlog[1].code)
    /\ (InTargetLoop /\ StaticMode(i)) => Len(tables_to_purge) = 1

\* C19, amended: as above, but the SQL client of a SWAP_DROP target is
\* invoked in execute mode only; under --dry-run its command is built and
\* printed, no process is started for it and the result is 0.  The archiver
\* is invoked in both modes.  A command Popen refuses (an item that is no
\* string) ends the run unjudged.
C19_SingleStep ==
    /\ (CurrentTarget /\ Strategy(i) \in {I(0), I(1)}) =>
          LET invoked == Strategy(i) = I(0) \/ ~options.dry_run
          IN  /\ Len(cmdlog) <= 1
              /\ \A k \in 1..Len(cmdlog) :
                    /\ cmdlog[k].step = (IF Strategy(i) = I(0) THEN "archive" ELSE "swap_drop")
                    /\ cmdlog[k].argv[1] =
                          (IF Strategy(i) = I(0) THEN S(PT_ARCHIVER_BIN) ELSE S("mysql"))
                    /\ cmdlog[k].spawned => invoked
                    /\ pc # "done" => (cmdlog[k].spawned = invoked)
              /\ Len(exitlog) <= 1
              /\ ~invoked => (exitlog = <<>> /\ running = {})
              /\ pc \in {"check", "target", "finish"} =>
                    /\ Len(cmdlog) = 1
                    /\ Len(steplog) = 1
                    /\ steplog[1].ret = ret
                    /\ IF invoked
                       THEN Len(exitlog) = 1 /\ ret = I(exitlog[1].code)
                       ELSE ret = I(0)
    /\ (InTargetLoop /\ StaticMode(i)) =>
          /\ Len(tables_to_purge) = 1
          /\ tables_to_purge[1] = [database |-> conf.src_db, table |-> conf.src_tbl]

\* C19 witness: the SQL client of the second target of a SWAP_DROP job
\* exited with a non-zero status, which is the result judged
C19_Witness ==
    /\ pc = "check" /\ CurrentTarget /\ Strategy(i) = I(1)
    /\ ~options.dry_run
    /\ t = 2
    /\ Len(cmdlog) = 1 /\ cmdlog[1].spawned
    /\ exitlog = <<[step |-> "swap_drop", code |-> 1]>>
    /\ ret = I(1)

\* C20: in an executed SWAP_ARCHIVE_DROP target the replication commands
\* are built only after the rename client exited with 0; swap_create_table
\* returns the rename client's status when that is not 0 and else the
\* status of the destination client, whatever the dump's; when that result
\* is not 0 the target is judged with no command after those of the SWAP
\* step, the rename not undone; when it is 0 the ARCHIVE step follows.
C20_SwapResult ==
    (CurrentTarget /\ ~options.dry_run /\ Strategy(i) = I(2)) =>
       /\ (\E k \in 1..Len(cmdlog) : cmdlog[k].step \in {"dump", "create"}) =>
             (exitlog # <<>> /\ exitlog[1] = [step |-> "swap", code |-> 0])
       /\ steplog # <<>> =>
             /\ steplog[1].runner = "swap_create_table"
             /\ exitlog[1].step = "swap"
             /\ IF exitlog[1].code # 0
                THEN /\ steplog[1].ret = I(exitlog[1].code)
                     /\ Steps = <<"swap">>
                ELSE /\ Len(exitlog) >= 2 /\ exitlog[2].step = "create"
                     /\ steplog[1].ret = I(exitlog[2].code)
                     /\ SubSeq(Steps, 1, 3) = <<"swap", "dump", "create">>
                     /\ exitlog[2].code # 0 => Steps = <<"swap", "dump", "create">>
                     /\ (exitlog[2].code = 0 /\ pc = "check") =>
                           (Len(Steps) >= 4 /\ Steps[4] = "archive")

\* C20 witness: the dump exited with a non-zero status, the destination
\* client with 0, and the target went on through ARCHIVE and DROP
C20_Witness ==
    /\ CurrentTarget /\ ~options.dry_run /\ Strategy(i) = I(2)
    /\ i = 1 /\ t = 1 /\ pc = "check"
    /\ dump_returncode = 1
    /\ exitlog[2] = [step |-> "create", code |-> 0]
    /\ Steps = <<"swap", "dump", "create", "archive", "drop">>
    /\ ret = I(0)

====
